---- MODULE Spec2Model ----
(***************************************************************************)
(* Model of code/train.py (class Trainer) and of the way code/main.py      *)
(* drives it: construction with an optional resume, the epoch/batch loop   *)
(* of train(), the per-batch optimisation of _train_batch, the periodic    *)
(* evaluation, and the checkpoint files last.pth.tar / best.pth.tar        *)
(* written by save_model and read by load_model.                           *)
(*                                                                         *)
(* Network parameters and optimizer states are abstracted to version       *)
(* numbers: 0 is the fresh initialisation, every optimizer step adds one.  *)
(* Validation mIOU values are abstracted to the integer levels             *)
(* 0..MaxScore (0 is the value best_mIOU is constructed with).             *)
(* The process can be killed at any moment (Crash); the files survive and  *)
(* a later run may resume from them.                                       *)
(***************************************************************************)
EXTENDS Integers, Sequences, FiniteSets, TLC

\* ---------------------------------------------------------------- bounds
NumSamples == 3      \* len(train_loader.dataset)
BatchSize == 2       \* train_loader.batch_size
MaxEpochs == 2       \* largest num_epochs passed to train()
MaxScore == 1        \* validation mIOU levels 0..MaxScore
MaxRuns == 2         \* number of processes started one after the other
MaxWindow == 2       \* largest gIters / dIters window part tried for a schedule
NumClasses == 3      \* loader.dataset.numClasses
MaxBatches == 2      \* largest number of batches a validation loader yields

\* Python's None (an absent discriminator, a missing total_iters).
None == -1

\* The values of gan_reg a run may be constructed with.
GanRegs == {1, 2}

\* The values of eval_every a run may be trained with (<= 0 disables evaluation).
EvalEverys == {0, 1, 2}

\* The file names of the experiment directory that load_model may be aimed at.
Files == {"last", "best"}

\* load_iter as given to the constructor: None (main.py), or a step name.
\* str(load_iters) + '.pth.tar' names last.pth.tar for "last"; no file is
\* ever written under any other step name ("7" stands for all of them).
LoadIters == {"None", "last", "7"}

\* One pass over the DataLoader yields ceil(NumSamples / BatchSize) batches
\* (drop_last is left at its default, False).
LoaderLen == (NumSamples + BatchSize - 1) \div BatchSize

\* epoch_len = int(num_samples / batch_size)
epoch_len == NumSamples \div BatchSize

VARIABLES
    pc,          \* position of the process: off, ready, loop, write_last, copy_best, done
    self,        \* the Trainer object's fields
    loop,        \* the locals of train(): total_iters, iter, epoch, b, num_epochs, eval_every
    save,        \* the locals of a save_model call in progress: save_dict, is_best
    disk,        \* the experiment directory: file name -> content
    runs,        \* number of processes started so far
    ctor,        \* history: the arguments the running Trainer was constructed with
    loaded,      \* history: the record load_model read in this run (NoFile if none)
    first_tick,  \* history: counters of the first _train_batch call of this run
    last_tick,   \* history: counters, stepped roles and calls of the latest _train_batch call
    last_eval,   \* history: the latest evaluation of this run, and the highest score before it
    last_save,   \* history: the latest completed save_model call
    best_snap,   \* history: save_dict of the latest completed save_model call with is_best
    confusion_mat,  \* get_confusion_matrix: confusion_mat, indexed [row][column]
    num_batches,    \* get_confusion_matrix: number of batches of the loader consumed
    pixels          \* history: how many pixels so far had <<predicted class, ground-truth class>>

tvars == <<pc, self, loop, save, disk, runs, ctor, loaded, first_tick, last_tick,
           last_eval, last_save, best_snap>>

cvars == <<confusion_mat, num_batches, pixels>>

vars == <<tvars, cvars>>

\* ------------------------------------------------------------ file contents
NoFile == [missing |-> TRUE]      \* os.path.isfile is False
Partial == [partial |-> TRUE]     \* a file opened for writing and not yet complete

IsRecord(f) == f # NoFile /\ f # Partial

Max(a, b) == IF a < b THEN b ELSE a

\* ------------------------------------------------------------ blank values
NoTrainer ==
    [train_gan |-> FALSE, gen |-> 0, genoptimizer |-> 0, disc |-> None,
     discoptimizer |-> None, gan_reg |-> 0, start_iter |-> 0,
     start_total_iters |-> 0, start_epoch |-> 0, best_mIOU |-> 0]

NoLoop ==
    [total_iters |-> 0, iter |-> 0, epoch |-> 0, b |-> 0, num_epochs |-> 0,
     eval_every |-> 0]

NoSave == [save_dict |-> NoFile, is_best |-> FALSE]

NoCtor == [train_gan |-> FALSE, discriminator |-> None, gan_reg |-> 0,
           resume |-> FALSE]

NoTick == [total_iters |-> None, iter |-> None, epoch |-> None, stepped |-> {},
           ops |-> <<>>]

NoEval == [val |-> None, earlier_max |-> None, is_best |-> FALSE, best_before |-> None,
           at |-> None]

NoLastSave == [save_dict |-> NoFile, is_best |-> FALSE,
               args |-> [iter |-> None, total_iters |-> None, epoch |-> None,
                         mIOU |-> None]]

\* ------------------------------------------------------------ Trainer.__init__
\* self.train_gan = train_gan and discriminator is not None
EffectiveTrainGan(train_gan, discriminator) == train_gan /\ discriminator # None

\* FreshTrainer with gan_reg left at the signature's default instead of the argument.
FreshTrainer_DefaultGanReg(train_gan, discriminator, gan_reg) ==
    LET tg == train_gan /\ discriminator # None IN
    [train_gan |-> tg, gen |-> 0, genoptimizer |-> 0,
     disc |-> IF tg THEN discriminator ELSE None,
     discoptimizer |-> IF tg THEN 0 ELSE None,
     gan_reg |-> 1, start_iter |-> 0, start_total_iters |-> 0, start_epoch |-> 0,
     best_mIOU |-> 0]

\* The fields after lines 27-54, before the resume.
FreshTrainer(train_gan, discriminator, gan_reg) ==
    LET tg == EffectiveTrainGan(train_gan, discriminator) IN
    [train_gan |-> tg,
     gen |-> 0,
     genoptimizer |-> 0,
     disc |-> IF tg THEN discriminator ELSE None,
     discoptimizer |-> IF tg THEN 0 ELSE None,
     gan_reg |-> gan_reg,
     start_iter |-> 0,
     start_total_iters |-> 0,
     start_epoch |-> 0,
     best_mIOU |-> 0]

\* The constructor arguments tried: train_gan, discriminator (None, or a fresh
\* network), gan_reg.  gan_reg is varied where a discriminator is trained.
CtorArgs ==
    {a \in BOOLEAN \X {None, 0} \X GanRegs : EffectiveTrainGan(a[1], a[2]) \/ a[3] = 1}

\* ------------------------------------------------------------ Trainer.load_model
\* The file load_model is aimed at.
SavePath(load_iters) == IF load_iters = "None" THEN "best" ELSE load_iters

FileAt(d, path) == IF path \in Files THEN d[path] ELSE NoFile

\* checkpoint.get('total_iters', None)
GetTotalIters(checkpoint) ==
    IF "total_iters" \in DOMAIN checkpoint THEN checkpoint.total_iters ELSE None

\* LoadDisc with gan_reg read outside the 'disc_dict' test, defaulting to 1.
LoadDisc_DefaultedGanReg(t, checkpoint) ==
    IF t.disc # None /\ "disc_dict" \in DOMAIN checkpoint
    THEN [t EXCEPT !.disc = checkpoint.disc_dict,
                   !.discoptimizer = checkpoint.disc_opt,
                   !.gan_reg = checkpoint.gan_reg]
    ELSE [t EXCEPT !.gan_reg = 1]

\* The discriminator part of load_model (lines 214-218).
LoadDisc(t, checkpoint) ==
    IF t.disc # None /\ "disc_dict" \in DOMAIN checkpoint
    THEN [t EXCEPT !.disc = checkpoint.disc_dict,
                   !.discoptimizer = checkpoint.disc_opt,
                   !.gan_reg = checkpoint.gan_reg]
    ELSE t

\* LoadCheckpoint without the restore of start_total_iters.
LoadCheckpoint_NoTotalIters(t, checkpoint) ==
    LoadDisc([t EXCEPT !.start_iter = checkpoint.iter,
                       !.start_epoch = checkpoint.epoch,
                       !.best_mIOU = checkpoint.best_mIOU,
                       !.gen = checkpoint.gen_dict,
                       !.genoptimizer = checkpoint.gen_opt],
             checkpoint)

\* The body of load_model once the file is read (lines 208-218).
LoadCheckpoint(t, checkpoint) ==
    LoadDisc([t EXCEPT !.start_iter = checkpoint.iter,
                       !.start_total_iters = GetTotalIters(checkpoint),
                       !.start_epoch = checkpoint.epoch,
                       !.best_mIOU = checkpoint.best_mIOU,
                       !.gen = checkpoint.gen_dict,
                       !.genoptimizer = checkpoint.gen_opt],
             checkpoint)

\* LoadModel forgetting the counter when the file is missing.
LoadModel_MissingClearsTotal(t, file) ==
    IF file = NoFile THEN [t EXCEPT !.start_total_iters = None]
    ELSE LoadCheckpoint(t, file)

\* load_model: a missing file leaves the trainer as it is.
LoadModel(t, file) == IF file = NoFile THEN t ELSE LoadCheckpoint(t, file)

\* ------------------------------------------------------------ Trainer.save_model
\* SaveDict storing the counters of the tick itself, not of the next one.
SaveDict_SameTick(t, iter, total_iters, epoch, mIOU) ==
    LET base == [epoch |-> epoch, iter |-> iter, total_iters |-> total_iters,
                 gen_dict |-> t.gen, best_mIOU |-> mIOU, gen_opt |-> t.genoptimizer]
    IN IF t.disc # None
       THEN base @@ [disc_dict |-> t.disc, disc_opt |-> t.discoptimizer,
                     gan_reg |-> t.gan_reg]
       ELSE base

\* save_dict as built by save_model(iter, total_iters, epoch, mIOU, _).
SaveDict(t, iter, total_iters, epoch, mIOU) ==
    LET base == [epoch |-> epoch,
                 iter |-> iter + 1,
                 total_iters |-> total_iters + 1,
                 gen_dict |-> t.gen,
                 best_mIOU |-> mIOU,
                 gen_opt |-> t.genoptimizer]
    IN IF t.disc # None
       THEN base @@ [disc_dict |-> t.disc, disc_opt |-> t.discoptimizer,
                     gan_reg |-> t.gan_reg]
       ELSE base

\* torch.save(save_dict, save_path): last.pth.tar holds save_dict.
LastWritten(d, save_dict) == [d EXCEPT !["last"] = save_dict]

\* CopyNeeded copying after every save.
CopyNeeded_Always(is_best) == TRUE

\* if is_best: (the copy is made)
CopyNeeded(is_best) == is_best

\* shutil.copyfile(save_path, self.best_path): best.pth.tar holds what last.pth.tar holds.
BestCopied(d) == [d EXCEPT !["best"] = d["last"]]

\* A file opened for writing, its content not yet written.
Opened(d, path) == [d EXCEPT ![path] = Partial]

\* ------------------------------------------------------------ Trainer._train_batch
\* TrainBatchSteps taking the adversarial branch whatever train_gan says.
TrainBatchSteps_AlwaysBoth(t) == {"generator", "discriminator"}

\* The optimizers stepped by one call of _train_batch.
TrainBatchSteps(t) ==
    IF ~t.train_gan THEN {"generator"} ELSE {"generator", "discriminator"}

\* TrainBatchOps clipping the generator's parameters in the discriminator step too.
TrainBatchOps_CrossClip(t) ==
    LET g == <<[op |-> "zero_grad", net |-> "generator"],
               [op |-> "backward", net |-> "generator"],
               [op |-> "clip_grad_norm", net |-> "generator"],
               [op |-> "step", net |-> "generator"]>>
        d == <<[op |-> "zero_grad", net |-> "discriminator"],
               [op |-> "backward", net |-> "discriminator"],
               [op |-> "clip_grad_norm", net |-> "generator"],
               [op |-> "step", net |-> "discriminator"]>>
    IN IF ~t.train_gan THEN g ELSE g \o d

\* The optimizer-related calls of one _train_batch, in program order: zero_grad
\* and step name the optimizer's network, backward the network whose loss is
\* backpropagated (segmentation_loss / gen_loss: generator, d_loss:
\* discriminator), clip_grad_norm the network whose parameters are clipped.
TrainBatchOps(t) ==
    LET g == <<[op |-> "zero_grad", net |-> "generator"],
               [op |-> "backward", net |-> "generator"],
               [op |-> "clip_grad_norm", net |-> "generator"],
               [op |-> "step", net |-> "generator"]>>
        d == <<[op |-> "zero_grad", net |-> "discriminator"],
               [op |-> "backward", net |-> "discriminator"],
               [op |-> "clip_grad_norm", net |-> "discriminator"],
               [op |-> "step", net |-> "discriminator"]>>
    IN IF ~t.train_gan THEN g ELSE g \o d

\* The trainer after one call of _train_batch.
TrainBatch(t) ==
    LET s == TrainBatchSteps(t) IN
    [t EXCEPT !.gen = IF "generator" \in s THEN @ + 1 ELSE @,
              !.genoptimizer = IF "generator" \in s THEN @ + 1 ELSE @,
              !.disc = IF "discriminator" \in s THEN @ + 1 ELSE @,
              !.discoptimizer = IF "discriminator" \in s THEN @ + 1 ELSE @]

\* ------------------------------------------------------------ Trainer.train
\* if self.best_mIOU < val_mIOU: self.best_mIOU = val_mIOU
\* NewBest taking the latest score whatever the best so far.
NewBest_Latest(best_mIOU, val_mIOU) == val_mIOU

NewBest(best_mIOU, val_mIOU) == IF best_mIOU < val_mIOU THEN val_mIOU ELSE best_mIOU

\* The is_best argument of the save_model call: self.best_mIOU == val_mIOU
IsBest(best_mIOU, val_mIOU) == best_mIOU = val_mIOU

\* EvalDue testing the count of ticks done instead of the tick's own number.
EvalDue_OffByOne(eval_every, total_iters) ==
    eval_every > 0 /\ (total_iters + 1) % eval_every = 0

\* if eval_every > 0 and total_iters % eval_every == 0
EvalDue(eval_every, total_iters) ==
    eval_every > 0 /\ total_iters % eval_every = 0

\* total_iters at the start of train (lines 125-135).
StartTotalIters(t) ==
    IF t.start_total_iters = None
    THEN t.start_iter + epoch_len * t.start_epoch
    ELSE t.start_total_iters

\* The end of one pass of the inner loop body (lines 175-177) and the for
\* statements' own bookkeeping: the next batch, or the next epoch.
Advanced(l) ==
    IF l.b + 1 < LoaderLen
    THEN [l EXCEPT !.iter = @ + 1, !.total_iters = @ + 1, !.b = @ + 1]
    ELSE [l EXCEPT !.iter = 0, !.total_iters = @ + 1, !.b = 0, !.epoch = @ + 1]

\* PcAfter running the epoch numbered num_epochs as well.
PcAfter_OneMore(l) == IF l.epoch <= l.num_epochs THEN "loop" ELSE "done"

\* Where the loop stands after Advanced: range(start_epoch, num_epochs) exhausted?
PcAfter(l) == IF l.epoch < l.num_epochs THEN "loop" ELSE "done"

\* ------------------------------------------------------------ Trainer.get_confusion_matrix
Classes == 0..(NumClasses - 1)

\* np.zeros((numClasses, numClasses))
ZeroMat == [r \in Classes |-> [c \in Classes |-> 0]]

\* The label vectors of one batch: pred_labels (the argmax of the generator's
\* mask) and gt_labels (gt_visual), flattened; a batch has two pixels.
Batches == [pred_labels : Classes \X Classes, gt_labels : Classes \X Classes]

\* CombinedIndex with the two label vectors exchanged.
CombinedIndex_Swapped(pred, gt) == gt + NumClasses * pred

\* x = pred_labels + numClasses * gt_labels, for one pixel
CombinedIndex(pred, gt) == pred + NumClasses * gt

\* np.bincount(x, minlength=numClasses ** 2)
Bincount(x) ==
    [k \in 0..(NumClasses * NumClasses - 1) |->
        Cardinality({i \in DOMAIN x : x[i] = k})]

\* bincount_2d.reshape((numClasses, numClasses)): row-major
Reshape(v) == [r \in Classes |-> [c \in Classes |-> v[r * NumClasses + c]]]

\* conf for one batch (lines 260-266).
BatchConf(batch) ==
    Reshape(Bincount([i \in DOMAIN batch.pred_labels |->
                         CombinedIndex(batch.pred_labels[i], batch.gt_labels[i])]))

\* ------------------------------------------------------------ initial state
\* No process has been started and the experiment directory is empty.
InitTrainer ==
    /\ pc = "off"
    /\ self = NoTrainer
    /\ loop = NoLoop
    /\ save = NoSave
    /\ disk = [f \in Files |-> NoFile]
    /\ runs = 0
    /\ ctor = NoCtor
    /\ loaded = NoFile
    /\ first_tick = NoTick
    /\ last_tick = NoTick
    /\ last_eval = NoEval
    /\ last_save = NoLastSave
    /\ best_snap = NoFile

\* get_confusion_matrix has not been called: there is no matrix.
Init ==
    /\ InitTrainer
    /\ confusion_mat = None
    /\ num_batches = 0
    /\ pixels = None

\* get_confusion_matrix up to its loop: confusion_mat = np.zeros(...).
ConfInit ==
    /\ InitTrainer
    /\ confusion_mat = ZeroMat
    /\ num_batches = 0
    /\ pixels = [p \in Classes \X Classes |-> 0]

\* ------------------------------------------------------------ actions
\* main.py: Trainer(generator, discriminator, ..., resume=..., load_iter=...).
\* torch.load of an incomplete file raises, and the process ends.
Construct(train_gan, discriminator, gan_reg, resume, load_iter) ==
    /\ UNCHANGED cvars
    /\ pc = "off"
    /\ runs < MaxRuns
    /\ runs' = runs + 1
    /\ LET fresh == FreshTrainer(train_gan, discriminator, gan_reg)
           file == FileAt(disk, SavePath(load_iter))
       IN IF resume /\ file = Partial
          THEN /\ pc' = "off"
               /\ UNCHANGED <<self, ctor, loaded>>
          ELSE /\ pc' = "ready"
               /\ self' = IF resume THEN LoadModel(fresh, file) ELSE fresh
               /\ loaded' = IF resume THEN file ELSE NoFile
               /\ ctor' = [train_gan |-> train_gan, discriminator |-> discriminator,
                           gan_reg |-> gan_reg, resume |-> resume]
    /\ UNCHANGED <<loop, save, disk, first_tick, last_tick, last_eval, last_save,
                   best_snap>>

\* trainer.train(num_epochs, print_every, eval_every) up to the first batch.
Train(num_epochs, eval_every) ==
    /\ UNCHANGED cvars
    /\ pc = "ready"
    /\ LET l == [total_iters |-> StartTotalIters(self), iter |-> self.start_iter,
                 epoch |-> self.start_epoch, b |-> 0, num_epochs |-> num_epochs,
                 eval_every |-> eval_every]
       IN /\ loop' = l
          /\ pc' = PcAfter(l)
    /\ UNCHANGED <<self, save, disk, runs, ctor, loaded, first_tick, last_tick,
                   last_eval, last_save, best_snap>>

\* One pass of the inner loop body: _train_batch, then, when an evaluation is
\* due, evaluate (val_mIOU), the best_mIOU update and the call of save_model
\* up to the point where torch.save has opened last.pth.tar for writing.
Tick(val_mIOU) ==
    /\ UNCHANGED cvars
    /\ pc = "loop"
    /\ LET trained == TrainBatch(self)
           tick == [total_iters |-> loop.total_iters, iter |-> loop.iter,
                    epoch |-> loop.epoch, stepped |-> TrainBatchSteps(self),
                    ops |-> TrainBatchOps(self)]
       IN /\ last_tick' = tick
          /\ first_tick' = IF first_tick = NoTick THEN tick ELSE first_tick
          /\ IF EvalDue(loop.eval_every, loop.total_iters)
             THEN LET best == NewBest(self.best_mIOU, val_mIOU)
                      t == [trained EXCEPT !.best_mIOU = best]
                  IN /\ self' = t
                     /\ save' = [save_dict |-> SaveDict(t, loop.iter, loop.total_iters,
                                                        loop.epoch, best),
                                 is_best |-> IsBest(best, val_mIOU)]
                     /\ last_eval' = [val |-> val_mIOU,
                                      earlier_max |-> Max(last_eval.earlier_max,
                                                          last_eval.val),
                                      is_best |-> IsBest(best, val_mIOU),
                                      best_before |-> self.best_mIOU,
                                      at |-> loop.total_iters]
                     /\ disk' = Opened(disk, "last")
                     /\ pc' = "write_last"
                     /\ UNCHANGED loop
             ELSE /\ val_mIOU = 0
                  /\ self' = trained
                  /\ loop' = Advanced(loop)
                  /\ pc' = PcAfter(Advanced(loop))
                  /\ UNCHANGED <<save, disk, last_eval>>
    /\ UNCHANGED <<runs, ctor, loaded, last_save, best_snap>>

\* The save_model call as recorded once it has returned.
Completed ==
    [save_dict |-> save.save_dict, is_best |-> save.is_best,
     args |-> [iter |-> loop.iter, total_iters |-> loop.total_iters,
               epoch |-> loop.epoch, mIOU |-> self.best_mIOU]]

\* torch.save(save_dict, save_path) completes; when is_best, shutil.copyfile
\* opens best.pth.tar for writing.
WriteLast ==
    /\ UNCHANGED cvars
    /\ pc = "write_last"
    /\ IF CopyNeeded(save.is_best)
       THEN /\ disk' = Opened(LastWritten(disk, save.save_dict), "best")
            /\ pc' = "copy_best"
            /\ UNCHANGED <<loop, save, last_save>>
       ELSE /\ disk' = LastWritten(disk, save.save_dict)
            /\ last_save' = Completed
            /\ save' = NoSave
            /\ loop' = Advanced(loop)
            /\ pc' = PcAfter(Advanced(loop))
    /\ UNCHANGED <<self, runs, ctor, loaded, first_tick, last_tick, last_eval, best_snap>>

\* shutil.copyfile(save_path, self.best_path) completes.
CopyBest ==
    /\ UNCHANGED cvars
    /\ pc = "copy_best"
    /\ disk' = BestCopied(disk)
    /\ last_save' = Completed
    /\ best_snap' = IF save.is_best THEN save.save_dict ELSE best_snap
    /\ save' = NoSave
    /\ loop' = Advanced(loop)
    /\ pc' = PcAfter(Advanced(loop))
    /\ UNCHANGED <<self, runs, ctor, loaded, first_tick, last_tick, last_eval>>

\* The process ends: it returns from train(), or it is killed at any point.
\* Its memory is lost, the files stay as they are.  A save_model call cut
\* short has not returned: it is no completed save, and a copy cut short
\* leaves best.pth.tar incomplete.
Crash ==
    /\ UNCHANGED cvars
    /\ pc # "off"
    /\ pc' = "off"
    /\ self' = NoTrainer
    /\ loop' = NoLoop
    /\ save' = NoSave
    /\ ctor' = NoCtor
    /\ loaded' = NoFile
    /\ first_tick' = NoTick
    /\ last_tick' = NoTick
    /\ last_eval' = NoEval
    /\ last_save' = IF pc \in {"write_last", "copy_best"} THEN NoLastSave ELSE last_save
    /\ best_snap' = IF pc = "copy_best" THEN Partial ELSE best_snap
    /\ UNCHANGED <<disk, runs>>

Next ==
    \/ \E a \in CtorArgs, resume \in BOOLEAN, load_iter \in LoadIters :
            Construct(a[1], a[2], a[3], resume, load_iter)
    \/ \E num_epochs \in 1..MaxEpochs, eval_every \in EvalEverys :
            Train(num_epochs, eval_every)
    \/ \E val_mIOU \in 0..MaxScore : Tick(val_mIOU)
    \/ WriteLast
    \/ CopyBest
    \/ Crash

Spec == Init /\ [][Next]_vars

\* One pass of the loop of get_confusion_matrix: confusion_mat += conf.
ConfusionBatch(batch) ==
    /\ num_batches < MaxBatches
    /\ num_batches' = num_batches + 1
    /\ LET conf == BatchConf(batch)
       IN  confusion_mat' = [r \in Classes |-> [c \in Classes |->
                                 confusion_mat[r][c] + conf[r][c]]]
    /\ LET px(i) == <<batch.pred_labels[i], batch.gt_labels[i]>>
       IN  pixels' = [[pixels EXCEPT ![px(1)] = @ + 1] EXCEPT ![px(2)] = @ + 1]
    /\ UNCHANGED tvars

ConfNext == \E batch \in Batches : ConfusionBatch(batch)

\* get_confusion_matrix on every loader of up to MaxBatches batches; the
\* matrix returned is confusion_mat when the loader is exhausted.
ConfSpec == ConfInit /\ [][ConfNext]_vars

\* ------------------------------------------------------------ properties
Saving == pc \in {"write_last", "copy_best"}

\* C1: with adversarial training enabled, each tick updates exactly one role,
\* the one a window schedule (the first gIters ticks of every gIters + dIters
\* generator, the rest discriminator) assigns to the tick's total_iters.
C1_WindowSchedule ==
    LET decide(g, d, n) == IF n % (g + d) < g THEN "generator" ELSE "discriminator"
    IN (self.train_gan /\ last_tick # NoTick) =>
           \E g \in 1..MaxWindow, d \in 1..MaxWindow :
               last_tick.stepped = {decide(g, d, last_tick.total_iters)}

\* C2: a trainer constructed with train_gan false or without a discriminator
\* has no discriminator and no discriminator optimizer, steps the generator
\* alone at every tick, and builds every save_dict without a discriminator block.
C2_GeneratorOnly ==
    (pc # "off" /\ (~ctor.train_gan \/ ctor.discriminator = None)) =>
        /\ self.disc = None
        /\ self.discoptimizer = None
        /\ last_tick # NoTick => last_tick.stepped = {"generator"}
        /\ Saving => DOMAIN save.save_dict \cap {"disc_dict", "disc_opt", "gan_reg"} = {}

C2_Witness ==
    /\ pc = "copy_best"
    /\ ctor.train_gan
    /\ ctor.discriminator = None
    /\ last_tick.total_iters > 0
    /\ IsRecord(loaded)
    /\ "disc_dict" \in DOMAIN loaded

\* C3: after a resume from a record holding epoch, iter and total_iters, the
\* trainer starts from the record's counters, and the first tick of train()
\* runs with exactly these counters; total_iters is not 0.
C3_ResumeCounters ==
    (IsRecord(loaded) /\ "total_iters" \in DOMAIN loaded) =>
        /\ pc = "ready" => /\ self.start_total_iters = loaded.total_iters
                           /\ self.start_iter = loaded.iter
                           /\ self.start_epoch = loaded.epoch
        /\ first_tick # NoTick =>
               /\ first_tick.total_iters = loaded.total_iters
               /\ first_tick.iter = loaded.iter
               /\ first_tick.epoch = loaded.epoch
               /\ first_tick.total_iters # 0

C3_Witness ==
    /\ IsRecord(loaded)
    /\ first_tick # NoTick
    /\ first_tick.epoch = 1
    /\ first_tick.iter = 1
    /\ first_tick.total_iters = 3

\* C4 as claimed: a load of the record a save_model call wrote gives back the
\* epoch, the iteration in the epoch and the best score the call was given.
C4_RoundTripIdentity ==
    (pc = "ready" /\ IsRecord(loaded) /\ loaded = last_save.save_dict) =>
        /\ self.start_epoch = last_save.args.epoch
        /\ self.start_iter = last_save.args.iter
        /\ self.best_mIOU = last_save.args.mIOU

\* C4 as amended: a load of the record a save_model call wrote gives back the
\* epoch and the best score the call was given, and the iteration counters of
\* the tick after the one saved: iter + 1 and total_iters + 1.
C4_RoundTripNextTick ==
    (pc = "ready" /\ IsRecord(loaded) /\ loaded = last_save.save_dict) =>
        /\ self.start_epoch = last_save.args.epoch
        /\ self.start_iter = last_save.args.iter + 1
        /\ self.start_total_iters = last_save.args.total_iters + 1
        /\ self.best_mIOU = last_save.args.mIOU

C4_Witness ==
    /\ pc = "ready"
    /\ IsRecord(loaded)
    /\ loaded = last_save.save_dict
    /\ last_save.args.epoch = 1
    /\ last_save.args.mIOU = 1

\* C5: the copy into the best record is made only on an evaluation tick whose
\* score is strictly above every score of the earlier evaluation ticks of the run.
C5_CopyOnlyOnStrictImprovement ==
    pc = "copy_best" => last_eval.val > last_eval.earlier_max

\* C6: once a save_model call has returned, last.pth.tar holds its save_dict;
\* best.pth.tar holds what the latest call with is_best wrote into it (nothing
\* before the first such call), so a call without is_best, which overwrites
\* last.pth.tar, leaves best.pth.tar as it was.
C6_BestIsLatestBestSave ==
    /\ pc # "copy_best" => disk["best"] = best_snap
    /\ (~Saving /\ last_save # NoLastSave) => disk["last"] = last_save.save_dict

C6_Witness ==
    /\ pc = "loop"
    /\ last_save # NoLastSave
    /\ ~last_save.is_best
    /\ IsRecord(best_snap)
    /\ disk["best"] = best_snap
    /\ disk["last"] = last_save.save_dict
    /\ disk["last"] # disk["best"]

\* C7: no reader ever finds a partially written last or best record.
C7_NoPartialRecord == \A f \in Files : disk[f] # Partial

\* C8: a load of a record without a discriminator block into a trainer with
\* adversarial training leaves the discriminator, its optimizer and gan_reg as
\* constructed, and restores the generator, its optimizer and the four
\* counters from the record.
C8_PartialCheckpoint ==
    (pc = "ready" /\ self.train_gan /\ IsRecord(loaded)
                  /\ "disc_dict" \notin DOMAIN loaded) =>
        /\ self.disc = ctor.discriminator
        /\ self.discoptimizer = 0
        /\ self.gan_reg = ctor.gan_reg
        /\ self.gen = loaded.gen_dict
        /\ self.genoptimizer = loaded.gen_opt
        /\ self.start_epoch = loaded.epoch
        /\ self.start_iter = loaded.iter
        /\ self.start_total_iters = GetTotalIters(loaded)
        /\ self.best_mIOU = loaded.best_mIOU

C8_Witness ==
    /\ pc = "ready"
    /\ self.train_gan
    /\ IsRecord(loaded)
    /\ "disc_dict" \notin DOMAIN loaded
    /\ ctor.gan_reg = 2
    /\ loaded.best_mIOU = 1

\* C9: a resume that finds no file leaves the trainer as constructed (counters
\* and best_mIOU 0, networks and optimizers fresh, gan_reg as given), and the
\* first tick of train() is tick 0.
C9_MissingCheckpoint ==
    (pc # "off" /\ ctor.resume /\ loaded = NoFile) =>
        /\ pc = "ready" =>
               /\ self.start_epoch = 0 /\ self.start_iter = 0
               /\ self.start_total_iters = 0 /\ self.best_mIOU = 0
               /\ self.gen = 0 /\ self.genoptimizer = 0
               /\ self.disc \in {None, 0} /\ self.discoptimizer \in {None, 0}
               /\ self.gan_reg = ctor.gan_reg
        /\ first_tick # NoTick =>
               /\ first_tick.total_iters = 0
               /\ first_tick.iter = 0
               /\ first_tick.epoch = 0

C9_Witness ==
    /\ ctor.resume
    /\ loaded = NoFile
    /\ IsRecord(disk["best"])
    /\ runs = MaxRuns
    /\ first_tick # NoTick
    /\ pc = "loop"

\* C10 as claimed: gan_reg is the constructor's argument at every moment.
C10_GanRegFixed == pc # "off" => self.gan_reg = ctor.gan_reg

\* C10 as amended: gan_reg is the constructor's argument, unless the resume
\* loaded a record with a discriminator block into a trainer with adversarial
\* training: then it is the record's gan_reg.  Ticks and saves never change it.
C10_GanRegFixedUnlessRestored ==
    pc # "off" =>
        self.gan_reg = IF self.train_gan /\ IsRecord(loaded)
                          /\ "disc_dict" \in DOMAIN loaded
                       THEN loaded.gan_reg
                       ELSE ctor.gan_reg

C10_Witness ==
    /\ pc = "loop"
    /\ last_tick # NoTick
    /\ self.train_gan
    /\ IsRecord(loaded)
    /\ "disc_dict" \in DOMAIN loaded
    /\ loaded.gan_reg # ctor.gan_reg

\* C11: every optimizer step of a tick is the last of four consecutive calls:
\* zero_grad of the stepping optimizer, backward, clip_grad_norm, step, the
\* clipping on the parameters of the network that steps; nothing else is
\* zeroed, clipped or stepped, and every network stepped has such a group.
C11_StepOrder ==
    last_tick # NoTick =>
        LET ops == last_tick.ops IN
        /\ Len(ops) % 4 = 0
        /\ \A k \in 0..(Len(ops) \div 4 - 1) :
               LET n == ops[4 * k + 4].net IN
               /\ ops[4 * k + 1] = [op |-> "zero_grad", net |-> n]
               /\ ops[4 * k + 2].op = "backward"
               /\ ops[4 * k + 3] = [op |-> "clip_grad_norm", net |-> n]
               /\ ops[4 * k + 4].op = "step"
        /\ {ops[i].net : i \in {j \in 1..Len(ops) : ops[j].op = "step"}}
               = last_tick.stepped

C11_Witness ==
    /\ last_tick # NoTick
    /\ Len(last_tick.ops) = 8
    /\ last_tick.ops[8] = [op |-> "step", net |-> "discriminator"]
    /\ self.disc > 0

\* C12: with eval_every > 0 a tick evaluates exactly when its total_iters is
\* a multiple of eval_every; on such a tick best_mIOU is raised to the score
\* if the score is higher, then save_model is called with that best_mIOU,
\* with is_best exactly when the score reaches it, and with the counters of
\* the tick itself (not yet incremented).  With eval_every <= 0 there is no
\* evaluation and no save.
C12_EvalSchedule ==
    pc \in {"loop", "write_last", "copy_best", "done"} =>
        /\ loop.eval_every <= 0 => (last_eval = NoEval /\ ~Saving)
        /\ loop.eval_every > 0 =>
               /\ last_eval # NoEval => last_eval.at % loop.eval_every = 0
               /\ last_tick # NoTick =>
                      ((last_tick.total_iters % loop.eval_every = 0)
                           <=> last_eval.at = last_tick.total_iters)
        /\ Saving =>
               /\ last_eval.at = last_tick.total_iters
               /\ loop.total_iters = last_tick.total_iters
               /\ loop.iter = last_tick.iter
               /\ loop.epoch = last_tick.epoch
               /\ self.best_mIOU = Max(last_eval.best_before, last_eval.val)
               /\ save.save_dict.best_mIOU = self.best_mIOU
               /\ save.is_best <=> (last_eval.val >= last_eval.best_before)
        /\ (~Saving /\ last_eval # NoEval /\ last_eval.at = last_tick.total_iters) =>
               /\ last_save.args.total_iters = last_eval.at
               /\ last_save.args.mIOU = self.best_mIOU
               /\ last_save.is_best = last_eval.is_best

C12_Witness ==
    /\ pc = "loop"
    /\ loop.eval_every = 2
    /\ last_tick.total_iters = 3
    /\ last_eval.at = 2
    /\ last_eval.val = 0
    /\ last_eval.best_before = 1
    /\ last_save.args.total_iters = 2
    /\ ~last_save.is_best

\* C13: while train() is in its loop the epoch counter is below num_epochs and
\* the position in the pass is below the number of batches, so the next batch
\* is served; train() has returned exactly when the epoch counter is no longer
\* below num_epochs, after one full pass for every epoch start_epoch ..
\* num_epochs - 1, and after no tick at all when start_epoch >= num_epochs.
C13_StopsAtEpochCount ==
    /\ pc \in {"loop", "write_last", "copy_best"} =>
           /\ loop.epoch < loop.num_epochs
           /\ loop.epoch >= self.start_epoch
           /\ loop.b < LoaderLen
           /\ loop.total_iters - StartTotalIters(self)
                  = LoaderLen * (loop.epoch - self.start_epoch) + loop.b
    /\ pc = "done" =>
           IF self.start_epoch >= loop.num_epochs
           THEN /\ first_tick = NoTick
                /\ loop.epoch = self.start_epoch
                /\ loop.total_iters = StartTotalIters(self)
           ELSE /\ loop.epoch = loop.num_epochs
                /\ loop.b = 0
                /\ last_tick.epoch = loop.num_epochs - 1
                /\ loop.total_iters - StartTotalIters(self)
                       = LoaderLen * (loop.num_epochs - self.start_epoch)

C13_Witness ==
    /\ pc = "done"
    /\ IsRecord(loaded)
    /\ self.start_epoch = 0
    /\ self.start_iter = 1
    /\ loop.num_epochs = 2
    /\ loop.total_iters = 1 + 2 * LoaderLen

\* A resume whose restored epoch is already the epoch count serves no tick.
C13_WitnessNoTick ==
    /\ pc = "done"
    /\ IsRecord(loaded)
    /\ self.start_epoch >= loop.num_epochs
    /\ first_tick = NoTick

\* C14 as claimed: cell (i, j) of the matrix is the number of pixels with
\* predicted class i and ground-truth class j.
C14_CellIsPredByTruth ==
    \A i \in Classes, j \in Classes : confusion_mat[i][j] = pixels[<<i, j>>]

\* C14 as amended: cell (i, j) of the matrix is the number of pixels with
\* ground-truth class i and predicted class j (rows are the ground truth).
C14_CellIsTruthByPred ==
    \A i \in Classes, j \in Classes : confusion_mat[i][j] = pixels[<<j, i>>]

\* The scenario: predictions [0,1] / targets [0,1], then predictions [2,1] /
\* targets [2,0]; the pixel predicted 1 with ground truth 0 is counted in
\* cell (0, 1).
C14_Witness ==
    /\ num_batches = 2
    /\ pixels = [p \in Classes \X Classes |->
                    IF p \in {<<0, 0>>, <<1, 1>>, <<2, 2>>, <<1, 0>>} THEN 1 ELSE 0]
    /\ confusion_mat[0][0] = 1
    /\ confusion_mat[1][1] = 1
    /\ confusion_mat[2][2] = 1
    /\ confusion_mat[0][1] = 1
    /\ confusion_mat[1][0] = 0

\* C15: within a run best_mIOU is the maximum of its initial value (0, or the
\* best_mIOU of the record restored at construction) and every validation
\* score evaluated so far, so it never goes down; the best_mIOU written into
\* a record by save_model is that maximum at the time of the save.
C15_BestIsRunningMax ==
    pc \in {"ready", "loop", "write_last", "copy_best", "done"} =>
        LET initial == IF IsRecord(loaded) THEN loaded.best_mIOU ELSE 0
            running == Max(initial, Max(last_eval.earlier_max, last_eval.val))
        IN /\ self.best_mIOU = running
           /\ last_eval # NoEval =>
                  /\ last_eval.best_before = Max(initial, last_eval.earlier_max)
                  /\ last_eval.best_before <= self.best_mIOU
           /\ Saving => save.save_dict.best_mIOU = running
           /\ (~Saving /\ last_eval # NoEval) =>
                  /\ last_save.save_dict.best_mIOU = running
                  /\ last_save.args.mIOU = running

\* A resumed run whose restored best score is above its first validation
\* score: the saved record still carries the restored score.
C15_Witness ==
    /\ pc = "loop"
    /\ IsRecord(loaded)
    /\ loaded.best_mIOU = 1
    /\ last_eval.val = 0
    /\ last_eval.earlier_max = None
    /\ self.best_mIOU = 1
    /\ last_save.save_dict.best_mIOU = 1
    /\ disk["last"].best_mIOU = 1

\* C16: at every tick the in-epoch counter iter is below the number of
\* batches one pass over the loader yields, and total_iters is that number
\* times epoch plus iter.
C16_IterWithinPass ==
    last_tick # NoTick =>
        /\ last_tick.iter < LoaderLen
        /\ last_tick.total_iters = LoaderLen * last_tick.epoch + last_tick.iter

\* C17: a trainer constructed with resume and load_iter = None, which reads
\* the file SavePath("None"), starts from the most recently written
\* checkpoint: its start_total_iters is the total_iters field of the record
\* of the latest completed save_model call.
C17_ResumeRestoresLatest ==
    (/\ pc = "ready"
     /\ ctor.resume
     /\ IsRecord(loaded)
     /\ loaded = FileAt(disk, SavePath("None"))
     /\ last_save # NoLastSave) =>
        self.start_total_iters = last_save.save_dict.total_iters

====
